---- MODULE Spec2Model ----
(***************************************************************************)
(* A model of the helicopter game of src/main.py and src/engine:           *)
(* the physics body (main.py PhysicsComponent), the vehicle state machine  *)
(* (Helicopter.update), the scene's collision pipeline (GameScene.update   *)
(* and handle_collision), the world geometry (engine/world.py) and the     *)
(* weapon component (engine/weapons.py).                                   *)
(*                                                                         *)
(* Units.  GameEngine.run measures a frame as clock.tick(fps) / 1000.0,    *)
(* an integer number of milliseconds divided by 1000.  The model keeps     *)
(* every quantity an exact integer:                                        *)
(*   time      in milliseconds            (dt, cooldown, lifetime)         *)
(*   force     in px/s^2                  (as written in the source)       *)
(*   velocity  in milli-px/s              (velocity += force * dt)         *)
(*   position  in micro-px                (position += velocity * dt)      *)
(* pygame.Rect holds integers (pixels): its constructor truncates.         *)
(***************************************************************************)
EXTENDS Integers, Sequences, FiniteSets, TLC

VARIABLES
    phys,        \* a PhysicsComponent driven on its own (PhysSpec)
    helicopter,  \* GameScene.helicopter: a record, or None
    weapon,      \* the WeaponComponent: projectiles, time_since_last_shot
    world,       \* World: walls and landing_pads, in list order
    game_over,   \* GameScene.game_over
    game_over_reason,
    error,       \* the exception that ended the program, or "none"
    hist         \* observation of the most recent call: what was called,
                 \* with which arguments, and what it did

vars == <<phys, helicopter, weapon, world, game_over, game_over_reason, error, hist>>

\* GameScene.helicopter is None once the helicopter is destroyed
None == [state |-> "None", physics |-> [force_x |-> 0]]

----------------------------------------------------------------------------
(* Units and arithmetic                                                    *)

\* GameEngine.run: delta_time = clock.tick(fps) / 1000.0
MsPerSecond == 1000
\* velocity (milli-px/s) * dt (ms) is a displacement in micro-px
Px == MsPerSecond * MsPerSecond
\* a velocity written in px/s in the source
PxPerS(v) == v * MsPerSecond

Min(a, b) == IF a <= b THEN a ELSE b
Max(a, b) == IF a >= b THEN a ELSE b
Abs(a) == IF a >= 0 THEN a ELSE -a

\* C truncation toward zero, as pygame.Rect converts a float coordinate
Trunc(n, d) == IF n >= 0 THEN n \div d ELSE -((-n) \div d)

----------------------------------------------------------------------------
(* pygame.Rect                                                             *)

\* pygame.Rect(left, top, width, height) from coordinates in micro-px and a
\* size in px; the fields are integers (px)
Rect(leftMicro, topMicro, w, h) ==
    [left |-> Trunc(leftMicro, Px), top |-> Trunc(topMicro, Px), width |-> w, height |-> h]

RectRight(r) == r.left + r.width
RectBottom(r) == r.top + r.height
RectCenterX(r) == r.left + (r.width \div 2)

\* Rect.colliderect: the rectangles overlap with a positive area; touching
\* edges do not collide
colliderect(a, b) ==
    /\ a.left < RectRight(b)
    /\ RectRight(a) > b.left
    /\ a.top < RectBottom(b)
    /\ RectBottom(a) > b.top

----------------------------------------------------------------------------
(* main.py PhysicsComponent                                                *)

gravity == 60
max_speed_x == 150
max_speed_y_up == 180
max_speed_y_down == 100

\* PhysicsComponent.__init__
NewPhysics == [velocity_x |-> 0, velocity_y |-> 0, force_x |-> 0, force_y |-> 0]

\* PhysicsComponent.apply_force
apply_force(p, x, y) == [p EXCEPT !.force_x = @ + x, !.force_y = @ + y]

Clamp(v, lo, hi) == Min(Max(v, lo), hi)

\* a variant that does not clear the forces
PhysicsUpdate_keeps_force(p, dt) ==
    [p EXCEPT
        !.velocity_x = Clamp(p.velocity_x + p.force_x * dt,
                             -PxPerS(max_speed_x), PxPerS(max_speed_x)),
        !.velocity_y = Clamp(p.velocity_y + p.force_y * dt,
                             -PxPerS(max_speed_y_up), PxPerS(max_speed_y_down))]

\* PhysicsComponent.update: apply the forces, clear them, cap the velocities
PhysicsUpdate(p, dt) ==
    [velocity_x |-> Clamp(p.velocity_x + p.force_x * dt,
                          -PxPerS(max_speed_x), PxPerS(max_speed_x)),
     velocity_y |-> Clamp(p.velocity_y + p.force_y * dt,
                          -PxPerS(max_speed_y_up), PxPerS(max_speed_y_down)),
     force_x |-> 0,
     force_y |-> 0]

----------------------------------------------------------------------------
(* engine/world.py: Wall, LandingPad, World                                *)

\* Wall.health of an indestructible wall: float('inf')
inf == "inf"
wall_health == 100

\* Wall.__init__; x, y (the centre) and the size are in px
Wall(x, y, width, height, destructible) ==
    [x |-> x, y |-> y, width |-> width, height |-> height,
     destructible |-> destructible,
     health |-> IF destructible THEN wall_health ELSE inf]

\* Wall.get_rect and LandingPad.get_rect:
\* pygame.Rect(x - width/2, y - height/2, width, height)
get_rect(e) ==
    [left |-> Trunc(2 * e.x - e.width, 2), top |-> Trunc(2 * e.y - e.height, 2),
     width |-> e.width, height |-> e.height]

\* a variant that reports an indestructible wall as destroyed
take_damage_destroys_any_wall(wall, amount) ==
    IF wall.destructible
    THEN [wall |-> [wall EXCEPT !.health = @ - amount],
          destroyed |-> wall.health - amount <= 0]
    ELSE [wall |-> wall, destroyed |-> TRUE]

\* Wall.take_damage: the wall afterwards, and the value returned
take_damage(wall, amount) ==
    IF wall.destructible
    THEN [wall |-> [wall EXCEPT !.health = @ - amount],
          destroyed |-> wall.health - amount <= 0]
    ELSE [wall |-> wall, destroyed |-> FALSE]

\* LandingPad.__init__
LandingPad(x, y, width, height) == [x |-> x, y |-> y, width |-> width, height |-> height]

\* the sequence s without its i-th element
RemoveAt(s, i) == [k \in 1..(Len(s) - 1) |-> IF k < i THEN s[k] ELSE s[k + 1]]

\* World.remove_wall, the wall given by its place in the list
remove_wall(walls, i) == RemoveAt(walls, i)

\* the least element of a set of places in a list, 0 if there is none
First(hits) == IF hits = {} THEN 0 ELSE CHOOSE i \in hits : \A k \in hits : i <= k

\* World.check_collision: the first wall in list order that collides with
\* rect, as its place in the list; 0 stands for None
check_collision(walls, rect) ==
    First({i \in DOMAIN walls : colliderect(get_rect(walls[i]), rect)})

\* lines 198-203 for the wall at place i, with td the outcome of
\* wall.take_damage(damage)
projectile_collision(w, i, td) ==
    [world |-> [w EXCEPT !.walls =
                    IF w.walls[i].destructible /\ td.destroyed
                    THEN remove_wall([w.walls EXCEPT ![i] = td.wall], i)
                    ELSE [w.walls EXCEPT ![i] = td.wall]],
     result |-> TRUE]

found_wall(w, i, amount) ==
    IF i = 0 THEN [world |-> w, result |-> FALSE]
    ELSE projectile_collision(w, i, take_damage(w.walls[i], amount))

\* World.handle_projectile_collision: the world afterwards and the value
\* returned (True if the projectile should be destroyed)
handle_projectile_collision(w, rect, amount) ==
    found_wall(w, check_collision(w.walls, rect), amount)

----------------------------------------------------------------------------
(* engine/weapons.py: Projectile, WeaponComponent                          *)

radius == 3
damage == 10
lifetime == 2000
cooldown == 200
spawn_offset == 20
update_damage == 10

\* Projectile.__init__: position in micro-px, velocity in milli-px/s
Projectile(x, y, velocity_x, velocity_y) ==
    [x |-> x, y |-> y, velocity_x |-> velocity_x, velocity_y |-> velocity_y,
     time_alive |-> 0]

\* a variant that keeps a projectile whose time_alive equals lifetime
Projectile_update_expires_late(p, dt) ==
    LET q == [p EXCEPT !.x = @ + p.velocity_x * dt,
                       !.y = @ + p.velocity_y * dt,
                       !.time_alive = @ + dt]
    IN [p |-> q, alive |-> q.time_alive <= lifetime]

\* Projectile.update: the projectile afterwards, and the value returned
\* (False if the projectile should be removed)
Projectile_update(p, dt) ==
    LET q == [p EXCEPT !.x = @ + p.velocity_x * dt,
                       !.y = @ + p.velocity_y * dt,
                       !.time_alive = @ + dt]
    IN [p |-> q, alive |-> q.time_alive < lifetime]

\* Projectile.get_rect, and the same rectangle as GameScene.update builds it
Projectile_get_rect(p) ==
    Rect(p.x - radius * Px, p.y - radius * Px, radius * 2, radius * 2)

\* WeaponComponent.__init__: starts ready to fire
NewWeapon == [projectiles |-> <<>>, time_since_last_shot |-> cooldown]

\* a variant that fires whatever the timer says
fire_ignores_cooldown(w, x, y, velocity_x, velocity_y) ==
    LET offset == IF velocity_x > 0 THEN spawn_offset ELSE -spawn_offset
    IN [projectiles |-> Append(w.projectiles,
                               Projectile(x + offset * Px, y, velocity_x, velocity_y)),
        time_since_last_shot |-> 0]

\* WeaponComponent.fire
fire(w, x, y, velocity_x, velocity_y) ==
    IF w.time_since_last_shot >= cooldown
    THEN LET offset == IF velocity_x > 0 THEN spawn_offset ELSE -spawn_offset
         IN [projectiles |-> Append(w.projectiles,
                                    Projectile(x + offset * Px, y, velocity_x, velocity_y)),
             time_since_last_shot |-> 0]
    ELSE w

\* the loop of WeaponComponent.update over a copy of the projectile list:
\* todo is what is left of the copy, kept the projectiles still listed
RECURSIVE update_projectiles(_, _, _, _)

\* a variant in which a projectile passes through an indestructible wall
projectile_hits_indestructible_passes(p, i, rest, walls, kept, dt) ==
    IF i = 0
    THEN update_projectiles(rest, walls, Append(kept, p), dt)
    ELSE IF walls[i].destructible
         THEN update_projectiles(
                  rest, [walls EXCEPT ![i] = take_damage(@, update_damage).wall], kept, dt)
         ELSE update_projectiles(rest, walls, Append(kept, p), dt)

\* a variant in which the projectile damages every destructible wall it
\* intersects
projectile_hits_every_wall(p, i, rest, walls, kept, dt) ==
    IF i = 0
    THEN update_projectiles(rest, walls, Append(kept, p), dt)
    ELSE update_projectiles(
             rest,
             [k \in DOMAIN walls |->
                 IF walls[k].destructible
                    /\ colliderect(get_rect(walls[k]), Projectile_get_rect(p))
                 THEN take_damage(walls[k], update_damage).wall
                 ELSE walls[k]],
             kept, dt)

\* a variant that damages the wall by twice the amount
projectile_hits_twice_as_hard(p, i, rest, walls, kept, dt) ==
    IF i = 0
    THEN update_projectiles(rest, walls, Append(kept, p), dt)
    ELSE update_projectiles(
             rest,
             IF walls[i].destructible
             THEN [walls EXCEPT ![i] = take_damage(@, 2 * update_damage).wall]
             ELSE walls,
             kept, dt)

\* lines 62-72 for the projectile p, with i the first wall of the scene that
\* collides with it (0 if none does): a destructible wall is damaged, the
\* value take_damage returns is dropped, the projectile is removed
projectile_hits(p, i, rest, walls, kept, dt) ==
    IF i = 0
    THEN update_projectiles(rest, walls, Append(kept, p), dt)
    ELSE update_projectiles(
             rest,
             IF walls[i].destructible
             THEN [walls EXCEPT ![i] = take_damage(@, update_damage).wall]
             ELSE walls,
             kept, dt)

\* lines 57-60 with u the outcome of projectile.update(delta_time)
projectile_step(u, rest, walls, kept, dt) ==
    IF ~u.alive
    THEN update_projectiles(rest, walls, kept, dt)
    ELSE projectile_hits(u.p, check_collision(walls, Projectile_get_rect(u.p)),
                         rest, walls, kept, dt)

update_projectiles(todo, walls, kept, dt) ==
    IF todo = <<>> THEN [projectiles |-> kept, walls |-> walls]
    ELSE projectile_step(Projectile_update(Head(todo), dt), Tail(todo), walls, kept, dt)

\* WeaponComponent.update, for a weapon attached to an entity of a scene:
\* the weapon and the scene's wall list afterwards
updated_weapon(w, r, dt) ==
    [weapon |-> [projectiles |-> r.projectiles,
                 time_since_last_shot |-> w.time_since_last_shot + dt],
     walls |-> r.walls]

WeaponUpdate(w, walls, dt) ==
    updated_weapon(w, update_projectiles(w.projectiles, walls, <<>>, dt), dt)

\* the projectile loop of GameScene.update (main.py 341-358) over a copy of
\* the projectile list
RECURSIVE scene_projectiles(_, _, _)

\* lines 352-358 for a projectile that met the wall at place i, with td the
\* outcome of wall.take_damage(projectile.damage)
scene_projectile_hit(td, i, rest, walls, kept) ==
    scene_projectiles(rest,
                      IF td.destroyed THEN remove_wall([walls EXCEPT ![i] = td.wall], i)
                      ELSE [walls EXCEPT ![i] = td.wall],
                      kept)

scene_projectile(p, i, rest, walls, kept) ==
    IF i = 0
    THEN scene_projectiles(rest, walls, Append(kept, p))
    ELSE scene_projectile_hit(take_damage(walls[i], damage), i, rest, walls, kept)

scene_projectiles(todo, walls, kept) ==
    IF todo = <<>> THEN [projectiles |-> kept, walls |-> walls]
    ELSE scene_projectile(Head(todo), check_collision(walls, Projectile_get_rect(Head(todo))),
                          Tail(todo), walls, kept)

----------------------------------------------------------------------------
(* main.py GameScene: the level                                            *)

block_size == 40
\* the extent of the level; generate_world sets 3000 x 2000
world_width == 280
world_height == 400
grid_width == world_width \div block_size
grid_height == world_height \div block_size

\* GameScene.is_grid_space_free for one cell; grid is the set of occupied cells
is_grid_space_free(grid, gx, gy) ==
    /\ gx >= 0 /\ gx + 1 <= grid_width
    /\ gy >= 0 /\ gy + 1 <= grid_height
    /\ <<gx, gy>> \notin grid

\* GameScene.place_block: the wall list and the grid afterwards
place_block(lv, gx, gy, destructible) ==
    IF ~is_grid_space_free(lv.grid, gx, gy) THEN lv
    ELSE [lv EXCEPT
            !.grid = @ \cup {<<gx, gy>>},
            !.walls = Append(@, Wall(gx * block_size + block_size \div 2,
                                     gy * block_size + block_size \div 2,
                                     block_size, block_size, destructible))]

\* a run of place_block calls over a sequence of cells
RECURSIVE place_blocks(_, _, _)
place_blocks(lv, cells, destructible) ==
    IF cells = <<>> THEN lv
    ELSE place_blocks(place_block(lv, Head(cells)[1], Head(cells)[2], destructible),
                      Tail(cells), destructible)

\* GameScene.place_landing_pad: a pad of 2 x 1 blocks
place_landing_pad(lv, gx, gy) ==
    IF ~(is_grid_space_free(lv.grid, gx, gy) /\ is_grid_space_free(lv.grid, gx + 1, gy))
    THEN lv
    ELSE [lv EXCEPT
            !.grid = @ \cup {<<gx, gy>>, <<gx + 1, gy>>},
            !.landing_pads = Append(@, LandingPad((gx + 1) * block_size,
                                                  gy * block_size + block_size \div 2,
                                                  block_size * 2, block_size))]

RECURSIVE place_landing_pads(_, _)
place_landing_pads(lv, cells) ==
    IF cells = <<>> THEN lv
    ELSE place_landing_pads(place_landing_pad(lv, Head(cells)[1], Head(cells)[2]),
                            Tail(cells))

\* the cells setup_world draws at random in the source, fixed here:
\* further pads, destructible blocks and indestructible obstacles
landing_pad_positions == << <<3, 8>> >>
destructible_cells == << <<5, 6>> >>
obstacle_cells == << <<3, 7>>, <<2, 4>> >>

\* GameScene.setup_world: the border (top, bottom, left, right), the
\* starting pad and the other pads, then the blocks
setup_world ==
    LET empty == [grid |-> {}, walls |-> <<>>, landing_pads |-> <<>>]
        top == place_blocks(empty, [i \in 1..grid_width |-> <<i - 1, 0>>], FALSE)
        bottom == place_blocks(top, [i \in 1..grid_width |-> <<i - 1, grid_height - 1>>], FALSE)
        left == place_blocks(bottom, [i \in 1..grid_height |-> <<0, i - 1>>], FALSE)
        right == place_blocks(left, [i \in 1..grid_height |-> <<grid_width - 1, i - 1>>], FALSE)
        start == place_landing_pad(right, 3, grid_height - 5)
        pads == place_landing_pads(start, landing_pad_positions)
        columns == place_blocks(pads, destructible_cells, TRUE)
        obstacles == place_blocks(columns, obstacle_cells, FALSE)
    IN [walls |-> obstacles.walls, landing_pads |-> obstacles.landing_pads]

----------------------------------------------------------------------------
(* main.py Helicopter                                                      *)

base_thrust == 400
takeoff_velocity == 25
takeoff_height == 50
spawn_clearance == 12
half_width == 15
half_height == 10

\* the input intents of a frame: pygame.key.get_pressed() at K_UP, K_DOWN,
\* K_LEFT, K_RIGHT and K_SPACE
KeySets == [up : BOOLEAN, down : BOOLEAN, left : BOOLEAN, right : BOOLEAN, fire : BOOLEAN]

\* Helicopter.__init__ at (x, y), in px; GameScene.spawn_helicopter then
\* sets the state to "landed"
Helicopter(x, y) ==
    [x |-> x * Px, y |-> y * Px, state |-> "landed", initial_y |-> y * Px,
     flip_x |-> FALSE, physics |-> NewPhysics]

\* Helicopter.get_collision_rect: pygame.Rect(x - 15, y - 10, 30, 20)
get_collision_rect(h) ==
    Rect(h.x - half_width * Px, h.y - half_height * Px, 2 * half_width, 2 * half_height)

\* a variant whose takeoff is integrated under gravity and thrust, without
\* the velocity being set again
state_machine_takeoff_integrated(h, keys) ==
    CASE h.state = "landed" ->
            LET reset == [h EXCEPT !.physics.velocity_x = 0, !.physics.velocity_y = 0]
            IN IF keys.up
               THEN [h |-> [reset EXCEPT !.state = "taking_off",
                                         !.physics.velocity_y = -PxPerS(takeoff_velocity)],
                     returned |-> TRUE, fires |-> FALSE]
               ELSE [h |-> reset, returned |-> FALSE, fires |-> FALSE]
      [] h.state = "taking_off" ->
            LET g == apply_force(h.physics, 0, gravity)
                u == IF keys.up THEN apply_force(g, 0, -gravity * 3) ELSE g
            IN [h |-> [h EXCEPT !.physics = u,
                                !.state = IF h.y < h.initial_y - takeoff_height * Px
                                          THEN "flying" ELSE @],
                returned |-> FALSE, fires |-> FALSE]
      [] h.state = "flying" ->
            LET g == apply_force(h.physics, 0, gravity)
                u == IF keys.up THEN apply_force(g, 0, -gravity * 3) ELSE g
                d == IF keys.down THEN apply_force(u, 0, (base_thrust * 6) \div 10) ELSE u
            IN [h |-> [h EXCEPT !.physics = d], returned |-> FALSE, fires |-> keys.fire]

\* a variant that takes off on the up key from flying as well
state_machine_takeoff_anywhere(h, keys) ==
    IF keys.up /\ h.state \in {"landed", "flying"}
    THEN [h |-> [h EXCEPT !.state = "taking_off",
                          !.physics.velocity_x = 0,
                          !.physics.velocity_y = -PxPerS(takeoff_velocity)],
          returned |-> TRUE, fires |-> FALSE]
    ELSE IF h.state = "landed"
    THEN [h |-> [h EXCEPT !.physics.velocity_x = 0, !.physics.velocity_y = 0],
          returned |-> FALSE, fires |-> FALSE]
    ELSE IF h.state = "taking_off"
    THEN [h |-> [h EXCEPT !.physics.velocity_y = -PxPerS(takeoff_velocity),
                          !.state = IF h.y < h.initial_y - takeoff_height * Px
                                    THEN "flying" ELSE @],
          returned |-> FALSE, fires |-> FALSE]
    ELSE [h |-> [h EXCEPT !.physics = apply_force(@, 0, gravity)],
          returned |-> FALSE, fires |-> keys.fire]

\* a variant whose takeoff holds the helicopter still instead of lifting it
state_machine_takeoff_hovers(h, keys) ==
    CASE h.state = "landed" ->
            LET reset == [h EXCEPT !.physics.velocity_x = 0, !.physics.velocity_y = 0]
            IN IF keys.up
               THEN [h |-> [reset EXCEPT !.state = "taking_off",
                                         !.physics.velocity_y = 0],
                     returned |-> TRUE, fires |-> FALSE]
               ELSE [h |-> reset, returned |-> FALSE, fires |-> FALSE]
      [] h.state = "taking_off" ->
            [h |-> [h EXCEPT !.physics.velocity_y = 0,
                             !.state = IF h.y < h.initial_y - takeoff_height * Px
                                       THEN "flying" ELSE @],
             returned |-> FALSE, fires |-> FALSE]
      [] h.state = "flying" ->
            LET g == apply_force(h.physics, 0, gravity)
                u == IF keys.up THEN apply_force(g, 0, -gravity * 3) ELSE g
                d == IF keys.down THEN apply_force(u, 0, (base_thrust * 6) \div 10) ELSE u
            IN [h |-> [h EXCEPT !.physics = d], returned |-> FALSE, fires |-> keys.fire]

\* a variant in which the takeoff request puts the helicopter straight
\* into flight
state_machine_skips_takeoff(h, keys) ==
    CASE h.state = "landed" ->
            LET reset == [h EXCEPT !.physics.velocity_x = 0, !.physics.velocity_y = 0]
            IN IF keys.up
               THEN [h |-> [reset EXCEPT !.state = "flying",
                                         !.physics.velocity_y = -PxPerS(takeoff_velocity)],
                     returned |-> TRUE, fires |-> FALSE]
               ELSE [h |-> reset, returned |-> FALSE, fires |-> FALSE]
      [] h.state = "taking_off" ->
            [h |-> [h EXCEPT !.physics.velocity_y = -PxPerS(takeoff_velocity),
                             !.state = IF h.y < h.initial_y - takeoff_height * Px
                                       THEN "flying" ELSE @],
             returned |-> FALSE, fires |-> FALSE]
      [] h.state = "flying" ->
            LET g == apply_force(h.physics, 0, gravity)
                u == IF keys.up THEN apply_force(g, 0, -gravity * 3) ELSE g
                d == IF keys.down THEN apply_force(u, 0, (base_thrust * 6) \div 10) ELSE u
            IN [h |-> [h EXCEPT !.physics = d], returned |-> FALSE, fires |-> keys.fire]

\* the state machine of Helicopter.update (main.py 149-186), up to the
\* weapon call: the helicopter afterwards, whether update returns at once
\* (the takeoff frame) and whether it reaches self.weapon.fire(direction)
state_machine(h, keys) ==
    CASE h.state = "landed" ->
            LET reset == [h EXCEPT !.physics.velocity_x = 0, !.physics.velocity_y = 0]
            IN IF keys.up
               THEN [h |-> [reset EXCEPT !.state = "taking_off",
                                         !.physics.velocity_y = -PxPerS(takeoff_velocity)],
                     returned |-> TRUE, fires |-> FALSE]
               ELSE [h |-> reset, returned |-> FALSE, fires |-> FALSE]
      [] h.state = "taking_off" ->
            [h |-> [h EXCEPT !.physics.velocity_y = -PxPerS(takeoff_velocity),
                             !.state = IF h.y < h.initial_y - takeoff_height * Px
                                       THEN "flying" ELSE @],
             returned |-> FALSE, fires |-> FALSE]
      [] h.state = "flying" ->
            LET g == apply_force(h.physics, 0, gravity)
                u == IF keys.up THEN apply_force(g, 0, -gravity * 3) ELSE g
                d == IF keys.down THEN apply_force(u, 0, (base_thrust * 6) \div 10) ELSE u
            IN [h |-> [h EXCEPT !.physics = d], returned |-> FALSE, fires |-> keys.fire]

\* the horizontal movement of Helicopter.update (main.py 188-197)
horizontal(h, keys) ==
    LET horizontal_thrust == IF h.state = "landed" THEN base_thrust \div 10
                             ELSE (base_thrust * 4) \div 10
        l == IF keys.left
             THEN [h EXCEPT !.physics = apply_force(@, -horizontal_thrust, 0), !.flip_x = TRUE]
             ELSE h
    IN IF keys.right
       THEN [l EXCEPT !.physics = apply_force(@, horizontal_thrust, 0), !.flip_x = FALSE]
       ELSE l

\* a variant that integrates in every state
integrate_when_landed(h, dt) ==
    LET p == PhysicsUpdate(h.physics, dt)
    IN [h EXCEPT !.physics = p,
                 !.x = @ + p.velocity_x * dt,
                 !.y = @ + p.velocity_y * dt]

\* a variant in which the physics body moves the entity as well, as
\* engine/physics.py's does
integrate_moves_twice(h, dt) ==
    IF h.state # "landed"
    THEN LET p == PhysicsUpdate(h.physics, dt)
         IN [h EXCEPT !.physics = p,
                      !.x = @ + 2 * p.velocity_x * dt,
                      !.y = @ + 2 * p.velocity_y * dt]
    ELSE h

\* the end of Helicopter.update (main.py 199-203): integrate and move,
\* unless landed
integrate(h, dt) ==
    IF h.state # "landed"
    THEN LET p == PhysicsUpdate(h.physics, dt)
         IN [h EXCEPT !.physics = p,
                      !.x = @ + p.velocity_x * dt,
                      !.y = @ + p.velocity_y * dt]
    ELSE h

\* a variant without the return of the takeoff frame
after_state_machine_no_return(sm, keys, dt) ==
    IF sm.fires THEN [h |-> sm.h, error |-> "TypeError"]
    ELSE [h |-> integrate(horizontal(sm.h, keys), dt), error |-> "none"]

\* Helicopter.update after its state machine: the helicopter afterwards,
\* and the exception raised.  The takeoff frame returns at once.
\* self.weapon.fire(direction) passes one argument to
\* WeaponComponent.fire(x, y, velocity_x, velocity_y): Python raises
\* TypeError at the call, and the rest of update does not run.
after_state_machine(sm, keys, dt) ==
    IF sm.returned THEN [h |-> sm.h, error |-> "none"]
    ELSE IF sm.fires THEN [h |-> sm.h, error |-> "TypeError"]
    ELSE [h |-> integrate(horizontal(sm.h, keys), dt), error |-> "none"]

\* Helicopter.update
Helicopter_update(h, keys, dt) == after_state_machine(state_machine(h, keys), keys, dt)

----------------------------------------------------------------------------
(* main.py GameScene                                                       *)

pad_tolerance == 10
safe_speed_y == 100
safe_speed_x == 50

\* the condition of the landing-pad loop of GameScene.update (318-323)
pad_qualifies(h, pad) ==
    LET heli_rect == get_collision_rect(h)
        pad_rect == get_rect(pad)
    IN /\ RectCenterX(heli_rect) >= pad_rect.left
       /\ RectCenterX(heli_rect) <= RectRight(pad_rect)
       /\ Abs(RectBottom(heli_rect) - pad_rect.top) < pad_tolerance
       /\ h.physics.velocity_y > 0
       /\ h.physics.velocity_y < PxPerS(safe_speed_y)
       /\ Abs(h.physics.velocity_x) < PxPerS(safe_speed_x)

\* the pad the loop breaks at: the first one in list order that qualifies,
\* as its place in the list; 0 if the helicopter is not flying or none does
landing_pad_hit(h, pads) ==
    IF h.state # "flying" THEN 0
    ELSE First({i \in DOMAIN pads : pad_qualifies(h, pads[i])})

\* the body of the landing-pad loop (325-328): a safe landing on pad
land_on_pad(h, pad) ==
    [h EXCEPT !.state = "landed",
              !.physics.velocity_x = 0,
              !.physics.velocity_y = 0,
              !.y = get_rect(pad).top * Px - (get_collision_rect(h).height * Px) \div 2]

\* a variant in which the last of the smallest overlaps wins
collision_side_last_wins(wall_rect, collision_rect) ==
    LET left_overlap == RectRight(collision_rect) - wall_rect.left
        right_overlap == RectRight(wall_rect) - collision_rect.left
        top_overlap == RectBottom(collision_rect) - wall_rect.top
        bottom_overlap == RectBottom(wall_rect) - collision_rect.top
        min_overlap == Min(Min(left_overlap, right_overlap), Min(top_overlap, bottom_overlap))
    IN IF bottom_overlap = min_overlap THEN "bottom"
       ELSE IF top_overlap = min_overlap THEN "top"
       ELSE IF right_overlap = min_overlap THEN "right"
       ELSE "left"

\* GameScene.handle_collision (266-279): the side of the smallest overlap;
\* min() returns the first of the smallest in the order left, right, top,
\* bottom
collision_side(wall_rect, collision_rect) ==
    LET left_overlap == RectRight(collision_rect) - wall_rect.left
        right_overlap == RectRight(wall_rect) - collision_rect.left
        top_overlap == RectBottom(collision_rect) - wall_rect.top
        bottom_overlap == RectBottom(wall_rect) - collision_rect.top
        min_overlap == Min(Min(left_overlap, right_overlap), Min(top_overlap, bottom_overlap))
    IN IF left_overlap = min_overlap THEN "left"
       ELSE IF right_overlap = min_overlap THEN "right"
       ELSE IF top_overlap = min_overlap THEN "top"
       ELSE "bottom"

\* a variant that does not look at the side
is_safe_landing_any_side(side, physics) ==
    /\ physics.velocity_y > 0
    /\ physics.velocity_y < PxPerS(safe_speed_y)
    /\ Abs(physics.velocity_x) < PxPerS(safe_speed_x)

\* GameScene.handle_collision (282-287)
is_safe_landing(side, physics) ==
    /\ side = "top"
    /\ physics.velocity_y > 0
    /\ physics.velocity_y < PxPerS(safe_speed_y)
    /\ Abs(physics.velocity_x) < PxPerS(safe_speed_x)

\* a variant that lands the helicopter where it is, without the snap
handle_collision_no_snap(h, wall, collision_rect) ==
    LET side == collision_side(get_rect(wall), collision_rect)
    IN IF ~is_safe_landing(side, h.physics)
       THEN [h |-> None, side |-> side]
       ELSE [h |-> [h EXCEPT !.state = "landed",
                             !.physics.velocity_x = 0,
                             !.physics.velocity_y = 0],
             side |-> side]

\* GameScene.handle_collision: the helicopter afterwards (None if it
\* crashed) and the side found
handle_collision(h, wall, collision_rect) ==
    LET wall_rect == get_rect(wall)
        side == collision_side(wall_rect, collision_rect)
    IN IF ~is_safe_landing(side, h.physics)
       THEN [h |-> None, side |-> side]
       ELSE [h |-> [h EXCEPT !.state = "landed",
                             !.physics.velocity_x = 0,
                             !.physics.velocity_y = 0,
                             !.y = wall_rect.top * Px - (collision_rect.height * Px) \div 2],
             side |-> side]

\* LandingPad.surface_height is read by spawn_helicopter and defined by no
\* class of src/: the y of the pad's top surface
surface_height(pad) == get_rect(pad).top

\* GameScene.spawn_helicopter: the helicopter on the first landing pad
spawn_helicopter(w) ==
    LET pad == w.landing_pads[1]
    IN Helicopter(pad.x, surface_height(pad) - spawn_clearance)

\* the end of GameScene.update (337-358) for a helicopter that survived the
\* wall check: the projectile loop
projectile_pass(updated, pad, wall, hc, sp, wpn, w) ==
    [helicopter |-> hc.h,
     weapon |-> [wpn EXCEPT !.projectiles = sp.projectiles],
     world |-> [w EXCEPT !.walls = sp.walls],
     game_over |-> FALSE, game_over_reason |-> "", error |-> "none",
     updated |-> updated, pad |-> pad, wall |-> wall, side |-> hc.side]

\* the wall check of GameScene.update (331-335) with the outcome hc of
\* handle_collision, and what follows it
after_collision(updated, pad, wall, hc, wpn, w) ==
    IF hc.h = None
    THEN [helicopter |-> None, weapon |-> wpn, world |-> w,
          game_over |-> TRUE, game_over_reason |-> "Helicopter crashed!",
          error |-> "none",
          updated |-> updated, pad |-> pad, wall |-> wall, side |-> hc.side]
    ELSE projectile_pass(updated, pad, wall, hc,
                         scene_projectiles(wpn.projectiles, w.walls, <<>>), wpn, w)

wall_check(updated, pad, hp, collision_rect, wall, wpn, w) ==
    after_collision(updated, pad, wall,
                    IF wall = 0 THEN [h |-> hp, side |-> "none"]
                    ELSE handle_collision(hp, w.walls[wall], collision_rect),
                    wpn, w)

\* GameScene.update from the wall check on (331-358), for the helicopter hp
\* as the landing-pad loop left it
after_pad_rect(updated, pad, hp, collision_rect, wpn, w) ==
    wall_check(updated, pad, hp, collision_rect,
               check_collision(w.walls, collision_rect), wpn, w)

after_pad(updated, pad, hp, wpn, w) ==
    after_pad_rect(updated, pad, hp, get_collision_rect(hp), wpn, w)

\* the landing-pad loop of GameScene.update (312-329) for the helicopter
\* as Helicopter.update left it, and what follows it
pad_check(updated, pad, wpn, w) ==
    after_pad(updated, pad,
              IF pad = 0 THEN updated ELSE land_on_pad(updated, w.landing_pads[pad]),
              wpn, w)

\* GameScene.update (308-358) after self.helicopter.update(delta_time)
\* gave hu; an exception leaves the frame at once
after_helicopter_update(hu, wpn, w) ==
    IF hu.error # "none"
    THEN [helicopter |-> hu.h, weapon |-> wpn, world |-> w,
          game_over |-> FALSE, game_over_reason |-> "", error |-> hu.error,
          updated |-> hu.h, pad |-> 0, wall |-> 0, side |-> "none"]
    ELSE pad_check(hu.h, landing_pad_hit(hu.h, w.landing_pads), wpn, w)

\* a variant that resolves the collisions at the position the frame began
\* with and lets Helicopter.update move the helicopter afterwards
moved_after_collision(c, hu) ==
    [c EXCEPT !.helicopter = hu.h, !.error = hu.error, !.updated = hu.h]

collided_first(c, keys, dt) ==
    IF c.helicopter = None THEN c
    ELSE moved_after_collision(c, Helicopter_update(c.helicopter, keys, dt))

SceneUpdate_collides_first(h, wpn, w, keys, dt) ==
    collided_first(pad_check(h, landing_pad_hit(h, w.landing_pads), wpn, w), keys, dt)

\* GameScene.update for a scene that is not over and has a helicopter:
\* everything the frame changes, and what it met on the way (the helicopter
\* as Helicopter.update left it, the pad landed on, the wall hit and its
\* side)
SceneUpdate(h, wpn, w, keys, dt) ==
    after_helicopter_update(Helicopter_update(h, keys, dt), wpn, w)

----------------------------------------------------------------------------
(* The game: GameEngine.run drives GameScene.handle_event and              *)
(* GameScene.update                                                        *)

\* the frame times of the model, in ms: clock.tick(60) gives about 16 ms, a
\* stalled frame far more.  The short frame is taken on the ground only,
\* where nothing is integrated.
DtSet == {1000}
GroundDtSet == {16}
FrameTimes(h) == IF h.state = "landed" THEN DtSet \cup GroundDtSet ELSE DtSet
\* frames are taken while the helicopter is within this distance (px) of
\* the level's extent
excursion_cap == 0
\* frames are taken while the force pending on a landed helicopter is
\* within this bound (px/s^2)
pending_force_cap == 40

NoKeys == [up |-> FALSE, down |-> FALSE, left |-> FALSE, right |-> FALSE, fire |-> FALSE]

within_cap(h) ==
    /\ h.x >= -excursion_cap * Px
    /\ h.x <= (world_width + excursion_cap) * Px
    /\ h.y >= -excursion_cap * Px
    /\ h.y <= (world_height + excursion_cap) * Px

\* what hist keeps of a helicopter as Helicopter.update left it
Seen(h) ==
    IF h = None THEN [state |-> "None", velocity_x |-> 0, velocity_y |-> 0]
    ELSE [state |-> h.state, velocity_x |-> h.physics.velocity_x,
          velocity_y |-> h.physics.velocity_y]

\* what hist records of a scene: the call and its arguments; the state the
\* helicopter was in before it; the helicopter as Helicopter.update left
\* it; the pad landed on, the wall hit and its side; and of the session
\* since the last spawn: whether the helicopter has been flying, through the
\* frames of a takeoff the y it took off from, and how far above it the
\* helicopter was when a frame began in "taking_off"
SceneHist(op, keys, dt, pre, r, flown, takeoff_y) ==
    [op |-> op, up |-> keys.up, sideways |-> keys.left \/ keys.right, fire |-> keys.fire,
     dt |-> dt, pre_state |-> pre.state,
     updated |-> Seen(r.updated),
     pad |-> r.pad, wall |-> r.wall, side |-> r.side,
     flown |-> flown, takeoff_y |-> takeoff_y,
     climbed |-> IF pre.state = "taking_off" /\ op = "update" THEN takeoff_y - pre.y ELSE 0]

NoFrame == [updated |-> None, pad |-> 0, wall |-> 0, side |-> "none"]

Init ==
    /\ world = setup_world
    /\ helicopter = spawn_helicopter(setup_world)
    /\ weapon = NewWeapon
    /\ game_over = FALSE
    /\ game_over_reason = ""
    /\ error = "none"
    /\ phys = NewPhysics
    /\ hist = SceneHist("init", NoKeys, 0, None, NoFrame, FALSE, 0)

\* the effect of a frame whose outcome is r
Frame(r, keys, dt) ==
    /\ Abs(r.helicopter.physics.force_x) <= pending_force_cap
    /\ helicopter' = r.helicopter
    /\ weapon' = r.weapon
    /\ world' = r.world
    /\ game_over' = r.game_over
    /\ game_over_reason' = r.game_over_reason
    /\ error' = r.error
    /\ hist' = SceneHist("update", keys, dt, helicopter, r,
                         hist.flown \/ r.updated.state = "flying",
                         IF helicopter.state = "landed" /\ r.updated.state = "taking_off"
                         THEN helicopter.y
                         ELSE IF "taking_off" \in {helicopter.state, r.updated.state}
                         THEN hist.takeoff_y ELSE 0)

\* a variant that simulates the frame although the game is over
Update_ignores_game_over(keys, dt) ==
    /\ error = "none"
    /\ helicopter # None
    /\ within_cap(helicopter)
    /\ Frame(SceneUpdate(helicopter, weapon, world, keys, dt), keys, dt)
    /\ UNCHANGED phys

\* GameScene.update(delta_time) with the keys held in this frame
Update(keys, dt) ==
    /\ error = "none"
    /\ ~game_over
    /\ helicopter # None
    /\ within_cap(helicopter)
    /\ Frame(SceneUpdate(helicopter, weapon, world, keys, dt), keys, dt)
    /\ UNCHANGED phys

\* GameScene.update once the game is over: it returns at once
UpdateOver(keys, dt) ==
    /\ error = "none"
    /\ game_over
    /\ hist' = SceneHist("update_over", NoKeys, dt, helicopter, NoFrame, hist.flown, 0)
    /\ UNCHANGED <<phys, helicopter, weapon, world, game_over, game_over_reason, error>>

\* a variant that restarts whether the game is over or not
KeyDownR_while_playing ==
    /\ error = "none"
    /\ game_over' = FALSE
    /\ game_over_reason' = ""
    /\ world' = setup_world
    /\ helicopter' = spawn_helicopter(setup_world)
    /\ weapon' = NewWeapon
    /\ hist' = SceneHist("restart", NoKeys, 0, helicopter, NoFrame, FALSE, 0)
    /\ UNCHANGED <<phys, error>>

\* GameScene.handle_event for KEYDOWN of K_r
KeyDownR ==
    /\ error = "none"
    /\ IF game_over
       THEN /\ game_over' = FALSE
            /\ game_over_reason' = ""
            /\ world' = setup_world
            /\ helicopter' = spawn_helicopter(setup_world)
            /\ weapon' = NewWeapon
            /\ hist' = SceneHist("restart", NoKeys, 0, helicopter, NoFrame, FALSE, 0)
       ELSE /\ UNCHANGED <<game_over, game_over_reason, world, helicopter, weapon>>
            /\ hist' = SceneHist("restart", NoKeys, 0, helicopter, NoFrame,
                                 hist.flown, hist.takeoff_y)
    /\ UNCHANGED <<phys, error>>

\* GameScene.handle_event for USEREVENT + 1: spawn_helicopter
SpawnEvent ==
    /\ error = "none"
    /\ helicopter' = spawn_helicopter(world)
    /\ weapon' = NewWeapon
    /\ hist' = SceneHist("spawn", NoKeys, 0, helicopter, NoFrame, FALSE, 0)
    /\ UNCHANGED <<phys, world, game_over, game_over_reason, error>>

Next ==
    \/ \E keys \in KeySets, dt \in FrameTimes(helicopter) : Update(keys, dt)
    \/ \E keys \in KeySets, dt \in DtSet : UpdateOver(keys, dt)
    \/ KeyDownR
    \/ SpawnEvent

Spec == Init /\ [][Next]_vars

----------------------------------------------------------------------------
(* A PhysicsComponent driven on its own: apply_force, direct assignments    *)
(* of the velocity (as Helicopter.update and handle_collision make them)    *)
(* and update, in any order                                                 *)

\* the forces applied (px/s^2), the velocities assigned (px/s) and the
\* frame times (ms)
PhysForcesX == {-160, 160}
PhysForcesY == {-180, 240}
PhysVelocities == {-200, -25, 0, 200}
PhysDtSet == {0, 500, 1000}
\* forces are applied while the pending force stays within this bound
phys_force_cap == 240

PhysHist(op, dt, pre) ==
    [op |-> op, dt |-> dt,
     forced |-> pre.force_x # 0 \/ pre.force_y # 0,
     beyond |-> \/ Abs(pre.velocity_x) > PxPerS(max_speed_x)
                \/ pre.velocity_y > PxPerS(max_speed_y_down)
                \/ pre.velocity_y < -PxPerS(max_speed_y_up)]

PhysInit ==
    /\ world = setup_world
    /\ helicopter = spawn_helicopter(setup_world)
    /\ weapon = NewWeapon
    /\ game_over = FALSE
    /\ game_over_reason = ""
    /\ error = "none"
    /\ phys = NewPhysics
    /\ hist = PhysHist("init", 0, NewPhysics)

PhysApplyForce(x, y) ==
    /\ Abs(phys.force_x + x) <= phys_force_cap
    /\ Abs(phys.force_y + y) <= phys_force_cap
    /\ phys' = apply_force(phys, x, y)
    /\ hist' = PhysHist("apply_force", 0, phys)
    /\ UNCHANGED <<helicopter, weapon, world, game_over, game_over_reason, error>>

PhysSetVelocity(vx, vy) ==
    /\ phys' = [phys EXCEPT !.velocity_x = PxPerS(vx), !.velocity_y = PxPerS(vy)]
    /\ hist' = PhysHist("set_velocity", 0, phys)
    /\ UNCHANGED <<helicopter, weapon, world, game_over, game_over_reason, error>>

PhysUpdate(dt) ==
    /\ phys' = PhysicsUpdate(phys, dt)
    /\ hist' = PhysHist("physics_update", dt, phys)
    /\ UNCHANGED <<helicopter, weapon, world, game_over, game_over_reason, error>>

PhysNext ==
    \/ \E x \in PhysForcesX \cup {0}, y \in PhysForcesY \cup {0} : PhysApplyForce(x, y)
    \/ \E vx, vy \in PhysVelocities : PhysSetVelocity(vx, vy)
    \/ \E dt \in PhysDtSet : PhysUpdate(dt)

PhysSpec == PhysInit /\ [][PhysNext]_vars

----------------------------------------------------------------------------
(* A WeaponComponent on an entity of a scene with the level's walls:        *)
(* fire, WeaponComponent.update and the projectile loop of                  *)
(* GameScene.update, in any order.  WeaponSpec fires along a row of the     *)
(* level that holds indestructible walls only and follows the projectiles   *)
(* through their whole lifetime; DamageSpec fires at the destructible       *)
(* block, and calls World.handle_projectile_collision as well.              *)

\* fire is called while fewer projectiles than this are listed
max_projectiles == 2
\* update is called while time_since_last_shot stays within this bound (ms)
timer_cap == 2200
damage_timer_cap == 400
\* and while no wall's health is further below zero than this
overkill_cap == 10

\* where fire is called from (px) and with what velocity_x (px/s), and the
\* frame times (ms)
FireCalls == {<<170, 220, -300>>, <<170, 220, 300>>, <<225, 220, 300>>}
WeaponDtSet == {50, 1000}
DamageFireCalls == {<<170, 260, 300>>, <<185, 260, 300>>}
DamageDtSet == {50, 200}
\* shots that meet the destructible block or the left border within one
\* frame, the slow one also within a stalled frame (ms) that ends its lifetime
ImpactFireCalls == {<<177, 260, 20>>, <<70, 260, -300>>, <<60, 260, -300>>}
\* the rectangles handed to World.handle_projectile_collision: in the left
\* border and in the destructible block
ImpactHitPoints == {<<20, 260>>, <<205, 260>>}
ImpactDtSet == {50}
StallDtSet == {2000}
\* the rectangles (as the centre of a projectile, px) and the damages handed
\* to World.handle_projectile_collision
HitPoints == {<<205, 260>>, <<20, 260>>, <<150, 260>>}
HitDamages == {10, 60}

\* what hist records of a weapon: the call, its frame time, and of the
\* weapon before the call the number of projectiles listed, the timer, and
\* how many of the projectiles reach their lifetime by this frame time
WeaponHist(op, dt, pre) ==
    [op |-> op, dt |-> dt,
     pre_len |-> Len(pre.projectiles),
     pre_timer |-> pre.time_since_last_shot,
     expiring |-> Cardinality({i \in DOMAIN pre.projectiles :
                                  pre.projectiles[i].time_alive + dt >= lifetime})]

WeaponInit ==
    /\ world = setup_world
    /\ helicopter = spawn_helicopter(setup_world)
    /\ weapon = NewWeapon
    /\ game_over = FALSE
    /\ game_over_reason = ""
    /\ error = "none"
    /\ phys = NewPhysics
    /\ hist = WeaponHist("init", 0, NewWeapon)

\* WeaponComponent.fire(x, y, velocity_x, velocity_y)
Fire(x, y, velocity_x, velocity_y) ==
    /\ Len(weapon.projectiles) < max_projectiles
    /\ weapon' = fire(weapon, x * Px, y * Px, PxPerS(velocity_x), PxPerS(velocity_y))
    /\ hist' = WeaponHist("fire", 0, weapon)
    /\ UNCHANGED <<phys, helicopter, world, game_over, game_over_reason, error>>

UpdatedWeapon(r, dt) ==
    /\ weapon' = r.weapon
    /\ world' = [world EXCEPT !.walls = r.walls]
    /\ hist' = WeaponHist("weapon_update", dt, weapon)

\* WeaponComponent.update(delta_time)
WeaponComponentUpdate(dt, cap) ==
    /\ weapon.time_since_last_shot + dt <= cap
    /\ \A i \in DOMAIN world.walls :
          world.walls[i].destructible => world.walls[i].health >= -overkill_cap
    /\ UpdatedWeapon(WeaponUpdate(weapon, world.walls, dt), dt)
    /\ UNCHANGED <<phys, helicopter, game_over, game_over_reason, error>>

PassedProjectiles(r) ==
    /\ weapon' = [weapon EXCEPT !.projectiles = r.projectiles]
    /\ world' = [world EXCEPT !.walls = r.walls]
    /\ hist' = WeaponHist("scene_pass", 0, weapon)

\* the projectile loop of GameScene.update
SceneProjectilePass ==
    /\ PassedProjectiles(scene_projectiles(weapon.projectiles, world.walls, <<>>))
    /\ UNCHANGED <<phys, helicopter, game_over, game_over_reason, error>>

\* World.handle_projectile_collision(projectile_rect, damage) for the
\* rectangle of a projectile at pt
WorldProjectileHit(pt, amount) ==
    /\ world' = handle_projectile_collision(
                    world, Projectile_get_rect(Projectile(pt[1] * Px, pt[2] * Px, 0, 0)),
                    amount).world
    /\ hist' = WeaponHist("world_hit", 0, weapon)
    /\ UNCHANGED <<phys, helicopter, weapon, game_over, game_over_reason, error>>

WeaponNext ==
    \/ \E c \in FireCalls : Fire(c[1], c[2], c[3], 0)
    \/ \E dt \in WeaponDtSet : WeaponComponentUpdate(dt, timer_cap)
    \/ SceneProjectilePass

WeaponSpec == WeaponInit /\ [][WeaponNext]_vars

DamageNext ==
    \/ \E c \in DamageFireCalls : Fire(c[1], c[2], c[3], 0)
    \/ \E dt \in DamageDtSet : WeaponComponentUpdate(dt, damage_timer_cap)
    \/ SceneProjectilePass
    \/ \E pt \in HitPoints, amount \in HitDamages : WorldProjectileHit(pt, amount)

DamageSpec == WeaponInit /\ [][DamageNext]_vars

\* a stalled frame is taken while the timer stays within lifetime
ImpactNext ==
    \/ \E c \in ImpactFireCalls : Fire(c[1], c[2], c[3], 0)
    \/ \E dt \in ImpactDtSet : WeaponComponentUpdate(dt, damage_timer_cap)
    \/ \E dt \in StallDtSet : WeaponComponentUpdate(dt, lifetime)
    \/ SceneProjectilePass
    \/ \E pt \in ImpactHitPoints, amount \in HitDamages : WorldProjectileHit(pt, amount)

ImpactSpec == WeaponInit /\ [][ImpactNext]_vars

----------------------------------------------------------------------------
(* Properties                                                              *)

\* C1: after every PhysicsComponent.update, for any prior velocity, any
\* accumulated force and any dt >= 0, the pending force is (0,0),
\* velocity_x lies in [-max_speed_x, max_speed_x] and velocity_y in
\* [-max_speed_y_up, max_speed_y_down].
C1_IntegrationClearsAndClamps ==
    hist.op = "physics_update" =>
        /\ phys.force_x = 0
        /\ phys.force_y = 0
        /\ phys.velocity_x >= -PxPerS(max_speed_x)
        /\ phys.velocity_x <= PxPerS(max_speed_x)
        /\ phys.velocity_y >= -PxPerS(max_speed_y_up)
        /\ phys.velocity_y <= PxPerS(max_speed_y_down)

\* an update of a body with a pending force and a velocity beyond the caps,
\* which it brought back to the cap on both axes
C1_Witness ==
    /\ hist.op = "physics_update"
    /\ hist.forced
    /\ hist.beyond
    /\ hist.dt > 0
    /\ phys.velocity_x = -PxPerS(max_speed_x)
    /\ phys.velocity_y = PxPerS(max_speed_y_down)

C3_PadLandingLands ==
    hist.op = "update" /\ hist.pad # 0 =>
        /\ ~game_over
        /\ helicopter # None
        /\ helicopter.state = "landed"
        /\ helicopter.physics.velocity_x = 0
        /\ helicopter.physics.velocity_y = 0
        /\ RectBottom(get_collision_rect(helicopter)) = get_rect(world.landing_pads[hist.pad]).top

\* C4: whenever the helicopter's rectangle intersects a wall and the side of
\* the smallest overlap is left, right or bottom, the helicopter is
\* destroyed (game over raised, helicopter removed), never landed, for every
\* velocity and every prior state.
C4_NonTopCollisionDestroys ==
    hist.op = "update" /\ hist.wall # 0 /\ hist.side \in {"left", "right", "bottom"} =>
        /\ helicopter = None
        /\ game_over
        /\ game_over_reason = "Helicopter crashed!"

\* a collision on the left side at a velocity that would be a safe landing
\* on a top side
C4_Witness ==
    /\ hist.op = "update"
    /\ hist.wall # 0
    /\ hist.side = "left"
    /\ hist.updated.state = "flying"
    /\ hist.updated.velocity_y > 0
    /\ hist.updated.velocity_y < PxPerS(safe_speed_y)
    /\ Abs(hist.updated.velocity_x) < PxPerS(safe_speed_x)
    /\ game_over

\* C5 as stated: once the helicopter has been flying, it is never again in
\* "taking_off" before the next spawn.
C5_NeverTakingOffAfterFlying == ~(hist.flown /\ helicopter.state = "taking_off")

\* C5 as amended: a frame never takes a flying helicopter to "taking_off";
\* "taking_off" is entered from "landed" only.
C5_TakingOffOnlyFromLanded ==
    [][helicopter'.state = "taking_off" => helicopter.state \in {"landed", "taking_off"}]_vars

\* a helicopter that has flown, landed, and is taking off again
C5_Witness ==
    /\ hist.flown
    /\ hist.pre_state = "landed"
    /\ helicopter.state = "taking_off"

\* C6: a frame that starts with the helicopter landed and the up key held
\* leaves Helicopter.update in "taking_off" with velocity_y set to the kick
\* (whatever dt and the pending force are) and velocity_x = 0.
C6_TakeoffKick ==
    hist.op = "update" /\ hist.pre_state = "landed" /\ hist.up =>
        hist.updated = [state |-> "taking_off", velocity_x |-> 0,
                        velocity_y |-> -PxPerS(takeoff_velocity)]

\* a takeoff in a short frame with left or right held and a force pending
C6_Witness ==
    /\ hist.op = "update"
    /\ hist.pre_state = "landed"
    /\ hist.up
    /\ hist.sideways
    /\ hist.dt \in GroundDtSet
    /\ helicopter # None
    /\ helicopter.state = "taking_off"
    /\ helicopter.physics.force_x # 0

\* C7: a helicopter in "taking_off" becomes flying exactly in the frame that
\* finds it more than takeoff_height above the surface it took off from, in
\* every takeoff since the spawn.
C7_FlyingAboveTakeoffSurface ==
    hist.op = "update" /\ hist.pre_state = "taking_off" =>
        (hist.updated.state = "flying" <=> hist.climbed > takeoff_height * Px)

\* C8: fire appends exactly one projectile and sets the timer to 0 when
\* time_since_last_shot >= cooldown, and changes nothing and raises nothing
\* otherwise; so any two listed projectiles were spawned at least cooldown
\* of update time apart.
C8_FireCooldown ==
    /\ error = "none"
    /\ hist.op = "fire" =>
          IF hist.pre_timer >= cooldown
          THEN /\ Len(weapon.projectiles) = hist.pre_len + 1
               /\ weapon.projectiles[hist.pre_len + 1].time_alive = 0
               /\ weapon.time_since_last_shot = 0
          ELSE /\ Len(weapon.projectiles) = hist.pre_len
               /\ weapon.time_since_last_shot = hist.pre_timer
    /\ \A i, j \in DOMAIN weapon.projectiles :
          i < j => weapon.projectiles[i].time_alive - weapon.projectiles[j].time_alive >= cooldown

\* the second projectile, spawned by a call exactly cooldown after the first
C8_Witness ==
    /\ hist.op = "fire"
    /\ Len(weapon.projectiles) = 2
    /\ weapon.projectiles[1].time_alive = cooldown
    /\ weapon.projectiles[2].time_alive = 0

\* the projectile p after Projectile.update(dt)
Aged(p, dt) ==
    [p EXCEPT !.x = @ + p.velocity_x * dt, !.y = @ + p.velocity_y * dt, !.time_alive = @ + dt]

Listed(q, w) == \E k \in DOMAIN w.projectiles : w.projectiles[k] = q

\* C9: a projectile that meets no wall stays listed while its accumulated
\* update time is below lifetime, is removed by the first update in which it
\* reaches or exceeds lifetime, and is never listed again: every listed
\* projectile is younger than lifetime and update never adds one.
C9_ProjectileLifetime ==
    /\ [](\A i \in DOMAIN weapon.projectiles : weapon.projectiles[i].time_alive < lifetime)
    /\ [][hist'.op = "weapon_update" =>
            /\ Len(weapon'.projectiles) <= Len(weapon.projectiles)
            /\ \A i \in DOMAIN weapon.projectiles :
                  IF Aged(weapon.projectiles[i], hist'.dt).time_alive >= lifetime
                  THEN ~Listed(Aged(weapon.projectiles[i], hist'.dt), weapon')
                  ELSE (check_collision(world.walls,
                            Projectile_get_rect(Aged(weapon.projectiles[i], hist'.dt))) = 0)
                       => Listed(Aged(weapon.projectiles[i], hist'.dt), weapon')]_vars

\* an update that removed a projectile reaching its lifetime and kept a
\* younger one
C9_Witness ==
    /\ hist.op = "weapon_update"
    /\ hist.pre_len = 2
    /\ hist.expiring = 1
    /\ Len(weapon.projectiles) = 1
    /\ weapon.projectiles[1].time_alive + cooldown <= lifetime
    /\ weapon.projectiles[1].time_alive >= hist.dt

\* C10: a destructible wall is removed from World's wall list by the
\* projectile impact that brings its health to 0 or below: no listed
\* destructible wall has health <= 0.
C10_DestroyedWallRemoved ==
    \A i \in DOMAIN world.walls :
        world.walls[i].destructible => world.walls[i].health > 0

\* the wall a projectile at q meets first, or 0
met_wall(q, walls) == check_collision(walls, Projectile_get_rect(q))

\* C11: when in one WeaponComponent.update a projectile both reaches its
\* lifetime and, at its integrated position, intersects a destructible wall,
\* that wall has lost health by the end of the update.
C11_ExpiringImpactDamages ==
    [][hist'.op = "weapon_update" =>
          \A i \in DOMAIN weapon.projectiles :
              (/\ Aged(weapon.projectiles[i], hist'.dt).time_alive >= lifetime
               /\ met_wall(Aged(weapon.projectiles[i], hist'.dt), world.walls) # 0
               /\ world.walls[met_wall(Aged(weapon.projectiles[i], hist'.dt),
                                       world.walls)].destructible)
              => world'.walls[met_wall(Aged(weapon.projectiles[i], hist'.dt),
                                       world.walls)].health
                     < world.walls[met_wall(Aged(weapon.projectiles[i], hist'.dt),
                                            world.walls)].health]_vars

\* C12: a projectile whose rectangle intersects a wall in a frame, be the
\* wall destructible or not, is off the projectile list when the frame's
\* projectile handling (WeaponComponent.update, the scene's projectile loop)
\* ends: no listed projectile intersects a wall then.
C12_ImpactRemovesProjectile ==
    /\ [](hist.op \in {"weapon_update", "scene_pass"} =>
              \A i \in DOMAIN weapon.projectiles :
                  met_wall(weapon.projectiles[i], world.walls) = 0)
    /\ [][hist'.op = "weapon_update" =>
              \A i \in DOMAIN weapon.projectiles :
                  met_wall(Aged(weapon.projectiles[i], hist'.dt), world.walls) # 0
                      => ~Listed(Aged(weapon.projectiles[i], hist'.dt), weapon')]_vars
    /\ [][hist'.op = "scene_pass" =>
              \A i \in DOMAIN weapon.projectiles :
                  met_wall(weapon.projectiles[i], world'.walls) # 0
                      => ~Listed(weapon.projectiles[i], weapon')]_vars

\* an update has removed a projectile that was short of its lifetime and
\* left the destructible block untouched: it met an indestructible wall
C12_Witness ==
    /\ hist.op = "weapon_update"
    /\ hist.pre_len = 1
    /\ hist.expiring = 0
    /\ weapon.projectiles = <<>>
    /\ \E i \in DOMAIN world.walls : world.walls[i].destructible
    /\ \A i \in DOMAIN world.walls :
          world.walls[i].destructible => world.walls[i].health = wall_health

\* C13: once game_over is set, a frame update leaves the helicopter, the
\* world's walls and pads, the projectiles, game_over and game_over_reason
\* as they are, and game_over is cleared by a restart request only.
C13_GameOverFreezesFrames ==
    /\ [][game_over /\ hist'.op \in {"update", "update_over"} =>
              UNCHANGED <<helicopter, weapon, world, game_over, game_over_reason>>]_vars
    /\ [][game_over /\ ~game_over' => hist'.op = "restart"]_vars

\* a frame has been updated after the crash
C13_Witness ==
    /\ game_over
    /\ helicopter = None
    /\ hist.op = "update_over"

\* C14: no frame update fails: whatever the helicopter's state and the keys
\* held, GameScene.update completes without raising an error.
C14_NoFrameFails ==
    error = "none"

C16_OutOfBoundsDestroys ==
    hist.op = "update" /\ error = "none" /\ helicopter # None =>
        /\ helicopter.x >= -100 * Px
        /\ helicopter.x <= (world_width + 100) * Px
        /\ helicopter.y >= -100 * Px
        /\ helicopter.y <= (world_height + 100) * Px

\* C17: in a frame in which the helicopter was snapped onto a landing pad
\* and set to "landed", the wall check is skipped: no wall is handled in
\* that frame and the frame does not end the game.
C17_PadLandingSkipsWallCheck ==
    hist.op = "update" /\ hist.pad # 0 =>
        /\ hist.wall = 0
        /\ ~game_over
        /\ helicopter # None

\* C18: at every frame boundary there is either a helicopter and game_over
\* is false, or no helicopter and game_over is true, whatever frames,
\* crashes, restart requests and USEREVENT + 1 spawn events came before.
C18_HelicopterIffNotOver ==
    error = "none" =>
        \/ helicopter # None /\ ~game_over
        \/ helicopter = None /\ game_over

\* C19: in a frame a flying helicopter completes with neither K_LEFT nor
\* K_RIGHT held, drag makes a non-zero velocity_x strictly smaller in
\* magnitude and leaves its sign as it was.
C19_DragDecaysVelocityX ==
    [][(/\ hist'.op = "update"
        /\ error' = "none"
        /\ helicopter.state = "flying"
        /\ ~hist'.sideways
        /\ helicopter.physics.velocity_x # 0)
       => /\ Abs(hist'.updated.velocity_x) < Abs(helicopter.physics.velocity_x)
          /\ hist'.updated.velocity_x * helicopter.physics.velocity_x >= 0]_vars

\* C20: a frame that a helicopter begins off the ground and completes moves
\* it by velocity * dt exactly once, with the velocity this frame's
\* integration produced: x by velocity_x * dt, and y by velocity_y * dt
\* unless a landing then snaps y onto the surface met.
C20_DisplacementOnce ==
    [][(/\ hist'.op = "update"
        /\ error' = "none"
        /\ helicopter.state \in {"taking_off", "flying"}
        /\ helicopter' # None)
       => /\ helicopter'.x = helicopter.x + hist'.updated.velocity_x * hist'.dt
          /\ hist'.pad = 0 /\ hist'.wall = 0 =>
                 helicopter'.y = helicopter.y + hist'.updated.velocity_y * hist'.dt]_vars

\* a flying frame has moved the helicopter, falling and drifting, and met
\* nothing
C20_Witness ==
    /\ hist.op = "update"
    /\ error = "none"
    /\ hist.pre_state = "flying"
    /\ hist.pad = 0
    /\ hist.wall = 0
    /\ helicopter # None
    /\ helicopter.physics.velocity_x < 0
    /\ helicopter.physics.velocity_y > 0

\* the geometric part of the landing-pad condition (main.py 318-320): the
\* helicopter is over the pad with its bottom edge within the tolerance of
\* the pad's top
pad_touched(h, pad) ==
    /\ RectCenterX(get_collision_rect(h)) >= get_rect(pad).left
    /\ RectCenterX(get_collision_rect(h)) <= RectRight(get_rect(pad))
    /\ Abs(RectBottom(get_collision_rect(h)) - get_rect(pad).top) < pad_tolerance

\* C21: a flying helicopter that touches a landing pad with a vertical
\* speed of 100 or more, or a horizontal speed of 50 or more, is destroyed
\* in that frame: no helicopter ends a frame touching a pad at such a speed.
C21_FastPadContactDestroys ==
    (/\ hist.op = "update"
     /\ error = "none"
     /\ helicopter # None
     /\ hist.updated.state = "flying"
     /\ \/ Abs(hist.updated.velocity_y) >= PxPerS(safe_speed_y)
        \/ Abs(hist.updated.velocity_x) >= PxPerS(safe_speed_x))
    => \A i \in DOMAIN world.landing_pads : ~pad_touched(helicopter, world.landing_pads[i])

----------------------------------------------------------------------------
(* GameScene.__init__ over a world with or without landing pads            *)

\* GameScene.helicopter before spawn_helicopter has assigned it: the
\* attribute does not exist
Unset == [state |-> "unset", physics |-> [force_x |-> 0]]

\* GameScene.spawn_helicopter with its test of world.landing_pads (553):
\* without a pad it returns having assigned nothing
spawned(prev, w) ==
    IF w.landing_pads # <<>> THEN spawn_helicopter(w) ELSE prev

\* the level as generated, and one in which no landing pad was placed
padless_world == [setup_world EXCEPT !.landing_pads = <<>>]
Worlds == {setup_world, padless_world}

\* the scene as GameScene.__init__ (249-257) returns it
ConstructInit ==
    /\ world \in Worlds
    /\ helicopter = spawned(Unset, world)
    /\ weapon = NewWeapon
    /\ game_over = FALSE
    /\ game_over_reason = ""
    /\ error = "none"
    /\ phys = NewPhysics
    /\ hist = SceneHist("init", NoKeys, 0, None, NoFrame, FALSE, 0)

\* GameScene.update of a scene whose helicopter attribute was never
\* assigned: the test `if self.helicopter` (308) raises AttributeError
UpdateUnset(keys, dt) ==
    /\ error = "none"
    /\ ~game_over
    /\ helicopter = Unset
    /\ error' = "AttributeError"
    /\ hist' = SceneHist("update", keys, dt, None, NoFrame, FALSE, 0)
    /\ UNCHANGED <<phys, helicopter, weapon, world, game_over, game_over_reason>>

ConstructNext ==
    \/ \E keys \in KeySets, dt \in DtSet : helicopter # Unset /\ Update(keys, dt)
    \/ \E keys \in KeySets, dt \in DtSet : UpdateUnset(keys, dt)
    \/ \E keys \in KeySets, dt \in DtSet : UpdateOver(keys, dt)

ConstructSpec == ConstructInit /\ [][ConstructNext]_vars

C23_SafeWallLanding ==
    (/\ hist.op = "update"
     /\ hist.pad = 0
     /\ hist.wall # 0
     /\ hist.side = "top"
     /\ hist.updated.velocity_y > 0
     /\ hist.updated.velocity_y < PxPerS(safe_speed_y)
     /\ Abs(hist.updated.velocity_x) < PxPerS(safe_speed_x))
    => /\ ~game_over
       /\ helicopter # None
       /\ helicopter.state = "landed"
       /\ helicopter.physics.velocity_x = 0
       /\ helicopter.physics.velocity_y = 0
       /\ RectBottom(get_collision_rect(helicopter)) = get_rect(world.walls[hist.wall]).top
       /\ ~colliderect(get_rect(world.walls[hist.wall]), get_collision_rect(helicopter))

\* a helicopter has come down on top of a wall at a safe speed
C23_Witness ==
    /\ hist.op = "update"
    /\ hist.pad = 0
    /\ hist.wall # 0
    /\ hist.side = "top"
    /\ hist.updated.velocity_y > 0
    /\ hist.updated.velocity_y < PxPerS(safe_speed_y)
    /\ Abs(hist.updated.velocity_x) < PxPerS(safe_speed_x)
    /\ helicopter # None

----------------------------------------------------------------------------
(* GameScene.handle_collision over the rectangles that meet one block      *)

\* the block of grid cell (2, 4) and the helicopter positions (px) whose
\* collision rectangle intersects it
SideWall == Wall(2 * block_size + block_size \div 2, 4 * block_size + block_size \div 2,
                 block_size, block_size, FALSE)
SideXs == (2 * block_size - half_width + 1) .. (3 * block_size + half_width - 1)
SideYs == (4 * block_size - half_height + 1) .. (5 * block_size + half_height - 1)

\* what hist records: the helicopter handed to handle_collision, with the
\* velocity of a safe descent, and the outcome
SideHelicopter(x, y) ==
    [Helicopter(x, y) EXCEPT !.state = "flying",
                                       !.physics.velocity_y = PxPerS(takeoff_velocity)]

SideInit ==
    /\ world = setup_world
    /\ helicopter = spawn_helicopter(setup_world)
    /\ weapon = NewWeapon
    /\ game_over = FALSE
    /\ game_over_reason = ""
    /\ error = "none"
    /\ phys = NewPhysics
    /\ \E x \in SideXs, y \in SideYs :
          hist = [op |-> "init", h |-> SideHelicopter(x, y), side |-> "none", landed |-> FALSE]

HandledCollision(hc) ==
    hist' = [hist EXCEPT !.op = "handle_collision", !.side = hc.side,
                         !.landed = hc.h # None]

\* GameScene.handle_collision(wall, collision_rect)
HandleCollision ==
    /\ hist.op = "init"
    /\ HandledCollision(handle_collision(hist.h, SideWall, get_collision_rect(hist.h)))
    /\ UNCHANGED <<phys, helicopter, weapon, world, game_over, game_over_reason, error>>

SideNext == HandleCollision

SideSpec == SideInit /\ [][SideNext]_vars

\* the four overlaps of handle_collision for the recorded helicopter
Overlaps ==
    [left |-> RectRight(get_collision_rect(hist.h)) - get_rect(SideWall).left,
     right |-> RectRight(get_rect(SideWall)) - get_collision_rect(hist.h).left,
     top |-> RectBottom(get_collision_rect(hist.h)) - get_rect(SideWall).top,
     bottom |-> RectBottom(get_rect(SideWall)) - get_collision_rect(hist.h).top]

\* C24: the side handle_collision chooses has the least of the four
\* overlaps, and among equal least overlaps the earliest of left, right,
\* top, bottom: a top overlap that ties with left or right is a side hit
\* and crashes, one that ties with bottom only is a top hit.
C24_CollisionSide ==
    hist.op = "handle_collision" =>
        /\ \A s \in {"left", "right", "top", "bottom"} : Overlaps[hist.side] <= Overlaps[s]
        /\ hist.side = "right" => Overlaps.left > Overlaps.right
        /\ hist.side = "top" => Overlaps.left > Overlaps.top /\ Overlaps.right > Overlaps.top
        /\ hist.side = "bottom" =>
               /\ Overlaps.left > Overlaps.bottom
               /\ Overlaps.right > Overlaps.bottom
               /\ Overlaps.top > Overlaps.bottom
        /\ Overlaps.top \in {Overlaps.left, Overlaps.right} => ~hist.landed
        /\ (/\ Overlaps.top = Overlaps.bottom
            /\ Overlaps.left > Overlaps.top
            /\ Overlaps.right > Overlaps.top) => hist.side = "top" /\ hist.landed

\* a least top overlap that ties with the left overlap was taken as left
C24_Witness ==
    /\ hist.op = "handle_collision"
    /\ Overlaps.top = Overlaps.left
    /\ Overlaps.top < Overlaps.right
    /\ Overlaps.top < Overlaps.bottom
    /\ hist.side = "left"
    /\ ~hist.landed

\* C25: a landing by landing-pad contact happens only for a flying
\* helicopter whose bottom edge is within the tolerance of the pad's top,
\* whose rectangle lies within the pad's span (left edge >= pad left, right
\* edge <= pad right), and whose velocity_y is downward and below 100 and
\* |velocity_x| below 50; it lands on the first pad of the list that
\* qualifies, bottom edge on the pad's top.
C25_PadLandingOnlyWhenContained ==
    hist.op = "update" /\ hist.pad # 0 /\ helicopter # None =>
        /\ hist.updated.state = "flying"
        /\ hist.updated.velocity_y > 0
        /\ hist.updated.velocity_y < PxPerS(safe_speed_y)
        /\ Abs(hist.updated.velocity_x) < PxPerS(safe_speed_x)
        /\ get_collision_rect(helicopter).left >= get_rect(world.landing_pads[hist.pad]).left
        /\ RectRight(get_collision_rect(helicopter))
               <= RectRight(get_rect(world.landing_pads[hist.pad]))

----------------------------------------------------------------------------
(* WeaponComponent and World over a column of two destructible blocks      *)

\* the level with a second destructible block under the first, as
\* create_wall_line stacks them in a column
column_world ==
    [setup_world EXCEPT !.walls =
        Append(@, Wall(5 * block_size + block_size \div 2, 7 * block_size + block_size \div 2,
                       block_size, block_size, TRUE))]

\* shots along the seam of the two blocks, the second from so near that
\* the projectile is created inside them
ColumnFireCalls == {<<150, 280, 300>>, <<185, 280, 300>>}
ColumnDtSet == {50}
ColumnHitPoints == {<<205, 280>>, <<205, 300>>}

ColumnInit ==
    /\ world = column_world
    /\ helicopter = spawn_helicopter(setup_world)
    /\ weapon = NewWeapon
    /\ game_over = FALSE
    /\ game_over_reason = ""
    /\ error = "none"
    /\ phys = NewPhysics
    /\ hist = WeaponHist("init", 0, NewWeapon)

ColumnNext ==
    \/ \E c \in ColumnFireCalls : Fire(c[1], c[2], c[3], 0)
    \/ \E dt \in ColumnDtSet : WeaponComponentUpdate(dt, damage_timer_cap)
    \/ SceneProjectilePass
    \/ \E pt \in ColumnHitPoints : WorldProjectileHit(pt, damage)

ColumnSpec == ColumnInit /\ [][ColumnNext]_vars

\* the walls of a list that are not in another list as they are
ChangedWalls(before, after) ==
    {i \in DOMAIN before : \A k \in DOMAIN after : after[k] # before[i]}

\* C26: a projectile damages at most one wall, once: a step that resolves
\* impacts changes no more walls than it takes projectiles off the list
\* (one for a call of World.handle_projectile_collision), and a wall that
\* a projectile changed was the first in list order that it intersected.
C26_OneImpactPerProjectile ==
    /\ [][hist'.op \in {"weapon_update", "scene_pass"} =>
              /\ Cardinality(ChangedWalls(world.walls, world'.walls))
                     <= Len(weapon.projectiles) - Len(weapon'.projectiles)
              /\ hist'.op = "weapon_update" =>
                     \A i \in ChangedWalls(world.walls, world'.walls) :
                         \E k \in DOMAIN weapon.projectiles :
                             i = met_wall(Aged(weapon.projectiles[k], hist'.dt), world.walls)]_vars
    /\ [][hist'.op = "world_hit" =>
              Cardinality(ChangedWalls(world.walls, world'.walls)) <= 1]_vars
    /\ [][hist'.op = "fire" => world'.walls = world.walls]_vars

\* an update has taken off the list a projectile on the seam of the two
\* blocks: the upper block, first in the list, is damaged and the lower one
\* is as new
C26_Witness ==
    /\ hist.op = "weapon_update"
    /\ hist.pre_len = 1
    /\ weapon.projectiles = <<>>
    /\ \E i, k \in DOMAIN world.walls :
          /\ i < k
          /\ world.walls[i].destructible /\ world.walls[k].destructible
          /\ world.walls[i].health = wall_health - update_damage
          /\ world.walls[k].health = wall_health

\* C27: play never changes an indestructible wall: every indestructible
\* wall of the level is in the wall list as it was built, health included,
\* and take_damage on it returns False and leaves it as it is.
C27_IndestructibleUnchanged ==
    /\ \A i \in DOMAIN setup_world.walls :
          ~setup_world.walls[i].destructible =>
              \E k \in DOMAIN world.walls : world.walls[k] = setup_world.walls[i]
    /\ \A k \in DOMAIN world.walls :
          ~world.walls[k].destructible =>
              /\ world.walls[k].health = inf
              /\ \A amount \in HitDamages :
                    take_damage(world.walls[k], amount)
                        = [wall |-> world.walls[k], destroyed |-> FALSE]

\* the scene's projectile loop has taken a projectile off the list with
\* the destructible block untouched: it was in an indestructible wall
C27_Witness ==
    /\ hist.op = "scene_pass"
    /\ hist.pre_len = 1
    /\ weapon.projectiles = <<>>
    /\ \E i \in DOMAIN world.walls :
          world.walls[i].destructible /\ world.walls[i].health = wall_health

\* the wall of a list that stands where wall does, as a set of places
SamePlace(wall, walls) ==
    {k \in DOMAIN walls : walls[k].x = wall.x /\ walls[k].y = wall.y}

\* C28: whichever code resolves a projectile's impact, WeaponComponent.update,
\* World.handle_projectile_collision or the scene's projectile loop, the
\* destructible wall hit loses exactly the projectile's damage: it is
\* either still in the list with that much less health, or removed with
\* no more health than that left.
C28_ImpactSubtractsProjectileDamage ==
    [][hist'.op \in {"weapon_update", "scene_pass", "world_hit"} =>
          \A i \in ChangedWalls(world.walls, world'.walls) :
              /\ world.walls[i].destructible
              /\ IF SamePlace(world.walls[i], world'.walls) = {}
                 THEN world.walls[i].health - damage <= 0
                 ELSE \A k \in SamePlace(world.walls[i], world'.walls) :
                          world'.walls[k].health = world.walls[i].health - damage]_vars

\* the scene's projectile loop has made the only impact on the level: one
\* block has lost a projectile's damage and the other is as new
C28_Witness ==
    /\ hist.op = "scene_pass"
    /\ hist.pre_len = 1
    /\ weapon.projectiles = <<>>
    /\ \E i, k \in DOMAIN world.walls :
          /\ i # k
          /\ world.walls[i].destructible /\ world.walls[k].destructible
          /\ world.walls[i].health = wall_health - damage
          /\ world.walls[k].health = wall_health

\* C29: the forces applied in a frame are consumed by that frame's
\* integration: after every completed frame update the helicopter's
\* pending force is (0, 0), whatever its state, also when it is landed and
\* K_LEFT or K_RIGHT is held.
C29_NoPendingForce ==
    hist.op = "update" /\ error = "none" /\ helicopter # None =>
        helicopter.physics.force_x = 0 /\ helicopter.physics.force_y = 0

\* C30: at every frame boundary at which the helicopter is taking off its
\* velocity_y is the takeoff kick exactly, whatever keys are held and
\* whatever force is pending; its velocity_x may be non-zero.
C30_TakingOffKeepsKick ==
    helicopter # None /\ helicopter.state = "taking_off" =>
        helicopter.physics.velocity_y = -PxPerS(takeoff_velocity)

\* a frame of the climb with K_UP and a sideways key held has been
\* integrated: the helicopter drifts and still climbs at the kick
C30_Witness ==
    /\ hist.op = "update"
    /\ hist.pre_state = "taking_off"
    /\ hist.up
    /\ hist.sideways
    /\ helicopter # None
    /\ helicopter.state = "taking_off"
    /\ helicopter.physics.velocity_x # 0
    /\ helicopter.physics.velocity_y = -PxPerS(takeoff_velocity)

\* C31: K_SPACE held in a frame that a flying helicopter begins with the
\* cooldown ready adds a projectile, 20 px from the helicopter on the side
\* it faces and moving that way; held in a frame begun landed or taking off
\* it adds none.
C31_FireSpawnsWhenFlying ==
    hist.op = "update" /\ hist.fire =>
        IF hist.pre_state = "flying"
        THEN /\ error = "none"
             /\ weapon.projectiles # <<>>
             /\ weapon.time_since_last_shot = 0
             /\ \A i \in DOMAIN weapon.projectiles :
                   weapon.projectiles[i].velocity_x # 0
        ELSE weapon.projectiles = <<>>

----------------------------------------------------------------------------
(* engine/world.py LandingPad.is_safe_landing, World.is_on_landing_pad     *)

landing_tolerance == 5

\* LandingPad.is_safe_landing(entity_rect, velocity_y): the bottom is
\* within landing_tolerance of y - height/2 and the rectangle lies within
\* the pad's span; velocity_y is not looked at
LandingPad_is_safe_landing(pad, entity_rect, velocity_y) ==
    IF Abs(2 * RectBottom(entity_rect) - (2 * pad.y - pad.height)) > 2 * landing_tolerance
    THEN FALSE
    ELSE /\ entity_rect.left >= get_rect(pad).left
         /\ RectRight(entity_rect) <= RectRight(get_rect(pad))

\* World.is_on_landing_pad(entity_rect, velocity_y)
is_on_landing_pad(w, entity_rect, velocity_y) ==
    \E i \in DOMAIN w.landing_pads :
        LandingPad_is_safe_landing(w.landing_pads[i], entity_rect, velocity_y)

\* the helicopter positions (px) around the starting pad's surface and the
\* vertical velocities (px/s) the function is called with
PadXs == (3 * block_size - half_width) .. (5 * block_size + half_width)
PadYs == ((grid_height - 5) * block_size - half_height - 2 * landing_tolerance)
             .. ((grid_height - 5) * block_size - half_height + 2 * landing_tolerance)
PadVelocities == {-25, 25, 99, 100, 500}

PadInit ==
    /\ world = setup_world
    /\ helicopter = spawn_helicopter(setup_world)
    /\ weapon = NewWeapon
    /\ game_over = FALSE
    /\ game_over_reason = ""
    /\ error = "none"
    /\ phys = NewPhysics
    /\ \E x \in PadXs, y \in PadYs, v \in PadVelocities :
          hist = [op |-> "init", h |-> Helicopter(x, y), velocity_y |-> PxPerS(v),
                  result |-> FALSE]

\* a call of World.is_on_landing_pad with the helicopter's collision
\* rectangle
IsOnLandingPad ==
    /\ hist.op = "init"
    /\ hist' = [hist EXCEPT !.op = "is_on_landing_pad",
                            !.result = is_on_landing_pad(world, get_collision_rect(hist.h),
                                                         hist.velocity_y)]
    /\ UNCHANGED <<phys, helicopter, weapon, world, game_over, game_over_reason, error>>

PadNext == IsOnLandingPad

PadSpec == PadInit /\ [][PadNext]_vars

\* C32: LandingPad.is_safe_landing, and World.is_on_landing_pad built on
\* it, return True only when the bottom is within the tolerance of the pad
\* top, the rectangle is within the pad, and the vertical velocity given is
\* below the safe speed.
C32_SafeLandingChecksSpeed ==
    hist.op = "is_on_landing_pad" /\ hist.result =>
        /\ hist.velocity_y < PxPerS(safe_speed_y)
        /\ \E i \in DOMAIN world.landing_pads :
              /\ Abs(RectBottom(get_collision_rect(hist.h))
                         - get_rect(world.landing_pads[i]).top) <= landing_tolerance
              /\ get_collision_rect(hist.h).left >= get_rect(world.landing_pads[i]).left
              /\ RectRight(get_collision_rect(hist.h))
                     <= RectRight(get_rect(world.landing_pads[i]))

\* C33: a restart request (KEYDOWN of K_r) changes nothing while the game
\* is not over; when it is over the request clears game_over and the
\* reason, rebuilds the world and spawns a helicopter on the first landing
\* pad, landed and at rest, with no projectile and the cooldown ready.
C33_RestartOnlyWhenOver ==
    [][hist'.op = "restart" =>
          IF game_over
          THEN /\ ~game_over'
               /\ game_over_reason' = ""
               /\ world' = setup_world
               /\ helicopter' # None
               /\ helicopter'.state = "landed"
               /\ helicopter'.physics.velocity_x = 0
               /\ helicopter'.physics.velocity_y = 0
               /\ helicopter'.x = world'.landing_pads[1].x * Px
               /\ RectBottom(get_collision_rect(helicopter'))
                      <= get_rect(world'.landing_pads[1]).top
               /\ weapon'.projectiles = <<>>
               /\ weapon'.time_since_last_shot >= cooldown
          ELSE UNCHANGED <<helicopter, weapon, world, game_over, game_over_reason>>]_vars

\* a restart request after a crash has put a helicopter back on the pad
C33_Witness ==
    /\ hist.op = "restart"
    /\ hist.pre_state = "None"
    /\ ~game_over
    /\ helicopter # None
    /\ helicopter.state = "landed"

\* the state of the helicopter, "None" once it has been destroyed
vehicle_state(h) == IF h = None THEN "None" ELSE h.state

\* C34: within one frame the helicopter's state either stays, or goes
\* landed -> taking_off, taking_off -> flying, flying -> landed, or from
\* any state to destroyed; never landed -> flying, taking_off -> landed
\* or flying -> taking_off.
C34_StateSteps ==
    [][hist'.op = "update" /\ error' = "none" =>
          \/ vehicle_state(helicopter') = vehicle_state(helicopter)
          \/ vehicle_state(helicopter') = "None"
          \/ <<vehicle_state(helicopter), vehicle_state(helicopter')>> \in
                {<<"landed", "taking_off">>, <<"taking_off", "flying">>,
                 <<"flying", "landed">>}]_vars

\* a frame has brought a flying helicopter to rest
C34_Witness ==
    /\ hist.op = "update"
    /\ hist.pre_state = "flying"
    /\ helicopter # None
    /\ helicopter.state = "landed"

\* the frame times of the takeoff frames (ms)
TakeoffDtSet == {500, 1000}

\* what hist records of a call of Helicopter.update: whether up was held,
\* the frame time and the state the helicopter was in before it
TakeoffHist(keys, dt, pre) ==
    [op |-> "helicopter_update", up |-> keys.up, dt |-> dt, pre_state |-> pre.state]

\* Helicopter.update(delta_time) of a helicopter that has not yet reached
\* flight, with the keys held in this frame
HelicopterUpdate(keys, dt) ==
    /\ error = "none"
    /\ helicopter # None
    /\ helicopter.state # "flying"
    /\ \E r \in {Helicopter_update(helicopter, keys, dt)} :
          /\ Abs(r.h.physics.force_x) <= pending_force_cap
          /\ helicopter' = r.h
          /\ error' = r.error
          /\ hist' = TakeoffHist(keys, dt, helicopter)
    /\ UNCHANGED <<phys, weapon, world, game_over, game_over_reason>>

\* the frames of a takeoff, from the spawn on the pad up to flight
TakeoffNext == \E keys \in KeySets, dt \in TakeoffDtSet : HelicopterUpdate(keys, dt)

\* the main loop of GameEngine.run updates the scene, and the scene the
\* helicopter, in every iteration: while a frame can be simulated, one
\* eventually is
TakeoffSpec == Init /\ [][TakeoffNext]_vars /\ WF_vars(TakeoffNext)

\* C35: a helicopter that is taking off eventually is flying or destroyed,
\* whatever keys are held in the frames.
C35_TakeoffEnds ==
    (helicopter # None /\ helicopter.state = "taking_off")
        ~> (helicopter = None \/ helicopter.state = "flying")

\* a frame that began in takeoff has ended in flight
C35_Witness ==
    /\ hist.op = "helicopter_update"
    /\ hist.pre_state = "taking_off"
    /\ helicopter # None
    /\ helicopter.state = "flying"

\* C36: a frame without the up key leaves a landed helicopter landed and
\* where it was, whatever other keys are held; it is not destroyed.
C36_RestingStaysPut ==
    [][/\ helicopter # None
       /\ helicopter.state = "landed"
       /\ hist'.op = "update"
       /\ ~hist'.up
       => /\ helicopter' # None
          /\ helicopter'.state = "landed"
          /\ helicopter'.x = helicopter.x
          /\ helicopter'.y = helicopter.y
          /\ ~game_over'
          /\ error' = "none"]_vars

-----------------------------------------------------------------------------
(* WeaponComponent at its fastest rate of fire: a slow projectile fired     *)
(* into open air, which meets no wall in its lifetime, and an update per    *)
(* frame.                                                                   *)

\* fire is called while fewer projectiles than this are listed
volley_cap == 12
\* where fire is called from (px) and with what velocity_x (px/s), and the
\* frame times (ms)
VolleyCall == <<150, 120, 10>>
VolleyDtSet == {100, 200}

\* WeaponComponent.fire(x, y, velocity_x, velocity_y), requested in any frame
VolleyFire ==
    /\ Len(weapon.projectiles) < volley_cap
    /\ weapon' = fire(weapon, VolleyCall[1] * Px, VolleyCall[2] * Px,
                      PxPerS(VolleyCall[3]), 0)
    /\ hist' = WeaponHist("fire", 0, weapon)
    /\ UNCHANGED <<phys, helicopter, world, game_over, game_over_reason, error>>

VolleyNext ==
    \/ VolleyFire
    \/ \E dt \in VolleyDtSet : WeaponComponentUpdate(dt, timer_cap)

VolleySpec == WeaponInit /\ [][VolleyNext]_vars

\* ceil(a / b) for positive b
ceil_div(a, b) == (a + b - 1) \div b

\* C37: with WeaponComponent.update run once per frame, the number of
\* projectiles listed never exceeds ceil(lifetime / cooldown) + 1 (11),
\* whenever fire is requested.
C37_VolleyBound == Len(weapon.projectiles) <= ceil_div(lifetime, cooldown) + 1

\* an update has left ten projectiles listed: one fired in every cooldown
\* and none yet at its lifetime
C37_Witness ==
    /\ hist.op = "weapon_update"
    /\ Len(weapon.projectiles) = ceil_div(lifetime, cooldown)


====
